---- MODULE Spec2Model ----
(***************************************************************************)
(* Model of src/main.py of DriftwoodEval/student-matcher: the CSV loader   *)
(* (encoding, delimiter and header detection), the field normaliser (DOB   *)
(* and name derivation) and the flagging matcher, with the __main__ run.   *)
(*                                                                         *)
(* Python strings are sequences of one-character strings, so that split(), *)
(* lower(), join() and the substring test `in` are computed as Python      *)
(* computes them.  A Python value is a record [t, v]: t is its type, v its *)
(* content (the characters of a str).                                      *)
(***************************************************************************)
EXTENDS Integers, Sequences, FiniteSets, TLC

VARIABLES
    filter_sped,       \* the file picked as "needs to be filtered" (table A)
    all_sped,          \* the file picked as "contains only SpEd kids" (table B)
    pc,                \* position of the run
    filter_df,         \* find_changed_students: filter_df
    all_df,            \* find_changed_students: all_df
    loaded_df,         \* filter_df as read_csv_with_detections returned it
    changed_students,  \* __main__: the value find_changed_students returned
    output,            \* updated_students.csv
    exc,               \* the function an uncaught exception escaped from
    arg,               \* argument of the function under study
    ret                \* its return value

vars == <<filter_sped, all_sped, pc, filter_df, all_df, loaded_df,
          changed_students, output, exc, arg, ret>>

run_vars == <<filter_sped, all_sped, filter_df, all_df, loaded_df,
              changed_students, output, exc>>

(***************************************************************************)
(* Bounds of the model.                                                    *)
(***************************************************************************)
MaxTokens == 3         \* tokens in a generated name value
MaxLines == 4          \* lines of a file given to the header locator
MaxDelimLines == 3     \* lines of a file given to the delimiter detector
MaxRowsA == 2          \* data rows of the file to be filtered
MaxRowsB == 2          \* data rows of the reference file

(***************************************************************************)
(* Python values.                                                          *)
(***************************************************************************)
None == [t |-> "NoneType", v |-> <<>>]
NaN == [t |-> "float", v |-> <<"n", "a", "n">>]
Str(chars) == [t |-> "str", v |-> chars]
PyInt(i) == [t |-> "int", v |-> i]
Bool(b) == [t |-> "bool", v |-> b]
isinstance_str(x) == x.t = "str"
\* pandas isna(): None and NaN are the missing values
IsNull(x) == x.t \in {"NoneType", "float"}

InList(x, list) == \E i \in 1..Len(list) : list[i] = x

(***************************************************************************)
(* str.lower(), str.split(), str.join() and the substring test.            *)
(***************************************************************************)
UpperCase == <<"A", "B", "C", "D", "E", "F", "G", "H", "I", "J", "K", "L", "M",
               "N", "O", "P", "Q", "R", "S", "T", "U", "V", "W", "X", "Y", "Z">>
LowerCase == <<"a", "b", "c", "d", "e", "f", "g", "h", "i", "j", "k", "l", "m",
               "n", "o", "p", "q", "r", "s", "t", "u", "v", "w", "x", "y", "z">>

lower_char(c) ==
    IF \E i \in 1..Len(UpperCase) : UpperCase[i] = c
    THEN LowerCase[CHOOSE i \in 1..Len(UpperCase) : UpperCase[i] = c]
    ELSE c

lower(str) == [i \in 1..Len(str) |-> lower_char(str[i])]

IsSpace(c) == c \in {" ", "\t"}

RECURSIVE split_from(_, _, _, _)
split_from(str, i, cur, parts) ==
    IF i > Len(str)
    THEN IF cur = <<>> THEN parts ELSE Append(parts, cur)
    ELSE IF IsSpace(str[i])
         THEN split_from(str, i + 1, <<>>,
                         IF cur = <<>> THEN parts ELSE Append(parts, cur))
         ELSE split_from(str, i + 1, Append(cur, str[i]), parts)

\* str.split() with no argument: runs of whitespace separate, no empty parts
split(str) == split_from(str, 1, <<>>, <<>>)

RECURSIVE join(_, _)
join(sep, parts) ==
    IF parts = <<>> THEN <<>>
    ELSE IF Len(parts) = 1 THEN parts[1]
    ELSE parts[1] \o sep \o join(sep, Tail(parts))

\* needle in hay
Contains(hay, needle) ==
    \E i \in 1..(Len(hay) - Len(needle) + 1) :
        SubSeq(hay, i, i + Len(needle) - 1) = needle

(***************************************************************************)
(* handle_suffix_lastname and the two lambdas applied to the name columns. *)
(***************************************************************************)
jr_sr == <<<<"j", "r">>, <<"s", "r">>>>
roman_numerals == <<<<"i", "i">>, <<"i", "i", "i">>, <<"i", "v">>, <<"v">>, <<"v", "i">>, <<"v", "i", "i">>,
                    <<"v", "i", "i", "i">>, <<"i", "x">>, <<"x">>>>

\* handle_suffix_lastname comparing the last part without lower()
handle_suffix_lastname_nolower(name_str) ==
    LET parts == split(name_str)
    IN  IF parts = <<>> THEN None
        ELSE IF InList(parts[Len(parts)], jr_sr \o roman_numerals) /\ Len(parts) > 1
             THEN Str(join(<<" ">>, SubSeq(parts, Len(parts) - 1, Len(parts))))
             ELSE Str(parts[Len(parts)])

handle_suffix_lastname(name_str) ==
    LET parts == split(name_str)
    IN  IF parts = <<>> THEN None
        ELSE LET last_part == lower(parts[Len(parts)])
             IN  IF InList(last_part, jr_sr \o roman_numerals) /\ Len(parts) > 1
                 THEN Str(join(<<" ">>, SubSeq(parts, Len(parts) - 1, Len(parts))))
                 ELSE Str(parts[Len(parts)])

\* lambda x: x.split()[0] if isinstance(x, str) and x.split() else None
first_token(x) ==
    IF isinstance_str(x) /\ split(x.v) # <<>> THEN Str(split(x.v)[1]) ELSE None

\* lambda x: handle_suffix_lastname(x) if isinstance(x, str) else None
suffix_lastname(x) ==
    IF isinstance_str(x) THEN handle_suffix_lastname(x.v) ELSE None

(***************************************************************************)
(* Name derivation on its own: one cell value, first name then last name.  *)
(***************************************************************************)
TokenPool == {<<"J", "o", "h", "n">>, <<"S", "m", "i", "t", "h">>, <<"G", "a", "r", "c", "i", "a">>, <<"J", "r">>, <<"I", "I", "I">>, <<"x">>, <<"J", "r", "s">>}
Separators == {<<" ">>, <<"\t", " ">>}
Padding == {<<>>, <<" ">>}

RECURSIVE TokenSeqs(_)
TokenSeqs(n) ==
    IF n = 0 THEN {<<>>}
    ELSE LET shorter == TokenSeqs(n - 1)
         IN  shorter \cup {Append(q, t) : q \in {p \in shorter : Len(p) = n - 1},
                                          t \in TokenPool}

NameValues ==
    {NaN, PyInt(5)}
    \cup {Str(pad \o join(sep, toks) \o pad) :
            pad \in Padding, sep \in Separators, toks \in TokenSeqs(MaxTokens)}

NameInit ==
    /\ arg \in NameValues
    /\ ret = [first |-> None, last |-> None]
    /\ pc = "name"
    /\ filter_sped = None /\ all_sped = None /\ filter_df = None
    /\ all_df = None /\ loaded_df = None /\ changed_students = None
    /\ output = None /\ exc = "none"

DeriveFirstName ==
    /\ pc = "name"
    /\ ret' = [ret EXCEPT !.first = first_token(arg)]
    /\ pc' = "first"
    /\ UNCHANGED <<arg, run_vars>>

DeriveLastName ==
    /\ pc = "first"
    /\ ret' = [ret EXCEPT !.last = suffix_lastname(arg)]
    /\ pc' = "named"
    /\ UNCHANGED <<arg, run_vars>>

NameNext == DeriveFirstName \/ DeriveLastName

NameSpec == NameInit /\ [][NameNext]_vars

(***************************************************************************)
(* The whitespace tokens of a string, stated by position: a token is a     *)
(* maximal run of non-whitespace characters.                               *)
(***************************************************************************)
TokenSpans(str) ==
    {<<i, j>> \in (1..Len(str)) \X (1..Len(str)) :
        /\ i <= j
        /\ \A k \in i..j : ~IsSpace(str[k])
        /\ (i = 1 \/ IsSpace(str[i - 1]))
        /\ (j = Len(str) \/ IsSpace(str[j + 1]))}
SpanText(str, sp) == SubSeq(str, sp[1], sp[2])
FirstSpan(str) == CHOOSE sp \in TokenSpans(str) : \A o \in TokenSpans(str) : sp[1] <= o[1]
LastSpan(str) == CHOOSE sp \in TokenSpans(str) : \A o \in TokenSpans(str) : sp[1] >= o[1]
PrevSpan(str) ==
    CHOOSE sp \in TokenSpans(str) \ {LastSpan(str)} :
        \A o \in TokenSpans(str) \ {LastSpan(str)} : sp[1] >= o[1]
SuffixSet == {<<"j", "r">>, <<"s", "r">>, <<"i", "i">>, <<"i", "i", "i">>, <<"i", "v">>, <<"v">>, <<"v", "i">>, <<"v", "i", "i">>,
              <<"v", "i", "i", "i">>, <<"i", "x">>, <<"x">>}
CaseFold(str) == [i \in 1..Len(str) |-> lower_char(str[i])]

\* C9: the derived first name is the first whitespace token; the derived last
\* name is the final two tokens joined by one space when there are at least two
\* tokens and the final token, case-insensitively, is a generational suffix,
\* and the final token otherwise; a non-string, empty or whitespace-only value
\* gives a null derived name.
C9_SuffixAwareNames ==
    pc = "named" =>
        IF arg.t # "str" \/ TokenSpans(arg.v) = {}
        THEN IsNull(ret.first) /\ IsNull(ret.last)
        ELSE LET first == SpanText(arg.v, FirstSpan(arg.v))
                 final == SpanText(arg.v, LastSpan(arg.v))
             IN  /\ ret.first = Str(first)
                 /\ ret.last =
                      IF Cardinality(TokenSpans(arg.v)) >= 2
                         /\ CaseFold(final) \in SuffixSet
                      THEN Str(SpanText(arg.v, PrevSpan(arg.v)) \o <<" ">> \o final)
                      ELSE Str(final)

\* "John Smith Jr" has been split into first "John" and last "Smith Jr"
C9_Witness ==
    /\ pc = "named"
    /\ arg = Str(<<"J", "o", "h", "n", " ", "S", "m", "i", "t", "h", " ", "J", "r">>)
    /\ ret.first = Str(<<"J", "o", "h", "n">>)
    /\ ret.last = Str(<<"S", "m", "i", "t", "h", " ", "J", "r">>)

(***************************************************************************)
(* Files.  A file is its decoded lines plus what opening and decoding it   *)
(* does: exists (open() succeeds), decodable (it decodes with the encoding *)
(* chardet guessed), utf8 (it decodes as UTF-8, the fallback's fixed       *)
(* encoding), malformed (pandas raises while parsing its rows).            *)
(***************************************************************************)
File(lines) ==
    [exists |-> TRUE, decodable |-> TRUE, utf8 |-> TRUE, malformed |-> FALSE,
     lines |-> lines]
MissingFile == [File(<<>>) EXCEPT !.exists = FALSE]

RECURSIVE SeqsUpTo(_, _)
SeqsUpTo(pool, n) ==
    IF n = 0 THEN {<<>>}
    ELSE LET shorter == SeqsUpTo(pool, n - 1)
         IN  shorter \cup {Append(q, x) : q \in {p \in shorter : Len(p) = n - 1},
                                          x \in pool}

(***************************************************************************)
(* find_header_start                                                       *)
(***************************************************************************)
header_line(line) ==
    LET line_lower == lower(line)
        has_name == Contains(line_lower, <<"n", "a", "m", "e">>)
        has_firstname == Contains(line_lower, <<"f", "i", "r", "s", "t", "n", "a", "m", "e">>)
        has_lastname == Contains(line_lower, <<"l", "a", "s", "t", "n", "a", "m", "e">>)
        name_condition == has_name \/ (has_firstname /\ has_lastname)
        has_dob == Contains(line_lower, <<"d", "o", "b">>)
        has_date_of_birth == Contains(line_lower, <<"d", "a", "t", "e", " ", "o", "f", " ", "b", "i", "r", "t", "h">>)
        has_birthdate == Contains(line_lower, <<"b", "i", "r", "t", "h", "d", "a", "t", "e">>)
        dob_condition == has_dob \/ has_date_of_birth \/ has_birthdate
    IN  name_condition /\ dob_condition

\* the docstring's reading: ANY of the keywords marks a header line
header_line_any(line) ==
    LET line_lower == lower(line)
    IN  \/ Contains(line_lower, <<"n", "a", "m", "e">>)
        \/ Contains(line_lower, <<"d", "o", "b">>)
        \/ Contains(line_lower, <<"d", "a", "t", "e", " ", "o", "f", " ", "b", "i", "r", "t", "h">>)
        \/ Contains(line_lower, <<"b", "i", "r", "t", "h", "d", "a", "t", "e">>)

RECURSIVE scan_header_any(_, _)
scan_header_any(lines, i) ==
    IF i >= Len(lines) THEN None
    ELSE IF header_line_any(lines[i + 1]) THEN PyInt(i)
    ELSE scan_header_any(lines, i + 1)

find_header_start_any(file) ==
    IF ~file.exists \/ ~file.decodable THEN None ELSE scan_header_any(file.lines, 0)

\* for i, line in enumerate(f): ... return i; return None after the loop
RECURSIVE scan_header(_, _)
scan_header(lines, i) ==
    IF i >= Len(lines) THEN None
    ELSE IF header_line(lines[i + 1]) THEN PyInt(i)
    ELSE scan_header(lines, i + 1)

find_header_start(file) ==
    IF ~file.exists THEN None            \* except FileNotFoundError
    ELSE IF ~file.decodable THEN None    \* except Exception (UnicodeDecodeError)
    ELSE scan_header(file.lines, 0)

HeaderLinePool ==
    {<<"L", "a", "s", "t", " ", "N", "a", "m", "e", ",", "F", "i", "r", "s", "t", " ", "N", "a", "m", "e", ",", "D", "a", "t", "e", " ", "o", "f", " ", "B", "i", "r", "t", "h">>, <<"N", "A", "M", "E", ";", "D", "O", "B">>,
     <<"f", "i", "r", "s", "t", "n", "a", "m", "e", ",", "l", "a", "s", "t", "n", "a", "m", "e", ",", "b", "i", "r", "t", "h", "d", "a", "t", "e">>, <<"D", "i", "s", "t", "r", "i", "c", "t", " ", "R", "e", "p", "o", "r", "t">>, <<>>,
     <<"S", "t", "u", "d", "e", "n", "t", " ", "N", "a", "m", "e", "s">>, <<"D", "O", "B", " ", "e", "x", "p", "o", "r", "t">>}

HeaderFiles ==
    {MissingFile}
    \cup {[File(ls) EXCEPT !.decodable = d] :
            ls \in SeqsUpTo(HeaderLinePool, MaxLines), d \in BOOLEAN}

HeaderInit ==
    /\ arg \in HeaderFiles
    /\ ret = None
    /\ pc = "header"
    /\ filter_sped = None /\ all_sped = None /\ filter_df = None
    /\ all_df = None /\ loaded_df = None /\ changed_students = None
    /\ output = None /\ exc = "none"

FindHeaderStart ==
    /\ pc = "header"
    /\ ret' = find_header_start(arg)
    /\ pc' = "header_done"
    /\ UNCHANGED <<arg, run_vars>>

HeaderNext == FindHeaderStart

HeaderSpec == HeaderInit /\ [][HeaderNext]_vars

NameCondition(line) ==
    \/ Contains(CaseFold(line), <<"n", "a", "m", "e">>)
    \/ (Contains(CaseFold(line), <<"f", "i", "r", "s", "t", "n", "a", "m", "e">>) /\ Contains(CaseFold(line), <<"l", "a", "s", "t", "n", "a", "m", "e">>))
DobCondition(line) ==
    \E kw \in {<<"d", "o", "b">>, <<"d", "a", "t", "e", " ", "o", "f", " ", "b", "i", "r", "t", "h">>, <<"b", "i", "r", "t", "h", "d", "a", "t", "e">>} : Contains(CaseFold(line), kw)
\* zero-based indices of the lines that satisfy both conditions
HeaderCandidates(file) ==
    {i \in 0..(Len(file.lines) - 1) :
        NameCondition(file.lines[i + 1]) /\ DobCondition(file.lines[i + 1])}

num_lines_default == 10

\* delimiter_counts is a dict: its items keep insertion order.  The loop over
\* the characters of one line: a character not yet a key is appended where it
\* first occurs, and every occurrence adds one to its count.
count_chars(delimiter_counts, line) ==
    LET occurrences(char) == Cardinality({k \in 1..Len(line) : line[k] = char})
        known(char) ==
            \E n \in 1..Len(delimiter_counts) : delimiter_counts[n][1] = char
        new_at == {k \in 1..Len(line) :
                      ~known(line[k]) /\ \A j \in 1..(k - 1) : line[j] # line[k]}
        nth_new(n) ==
            line[CHOOSE k \in new_at : Cardinality({j \in new_at : j < k}) = n - 1]
    IN  [n \in 1..Len(delimiter_counts) |->
            <<delimiter_counts[n][1],
              delimiter_counts[n][2] + occurrences(delimiter_counts[n][1])>>]
        \o [n \in 1..Cardinality(new_at) |-> <<nth_new(n), occurrences(nth_new(n))>>]

\* for i, line in enumerate(f): if i >= num_lines: break
RECURSIVE count_lines(_, _, _, _)
count_lines(delimiter_counts, lines, i, num_lines) ==
    IF i >= Len(lines) \/ i >= num_lines THEN delimiter_counts
    ELSE count_lines(count_chars(delimiter_counts, lines[i + 1] \o <<"\n">>),
                     lines, i + 1, num_lines)

\* sorted(items, key=count, reverse=True): stable, equal counts keep their order
RECURSIVE sorted_by_count(_)
sorted_by_count(items) ==
    IF items = <<>> THEN <<>>
    ELSE LET rest == sorted_by_count(SubSeq(items, 1, Len(items) - 1))
             item == items[Len(items)]
             ahead == SelectSeq(rest, LAMBDA o : o[2] >= item[2])
             behind == SelectSeq(rest, LAMBDA o : o[2] < item[2])
         IN  ahead \o <<item>> \o behind

delimiter_candidates == <<",", "\t", ";">>

\* analyze_most_common_delimiter returning the most frequent character at all
analyze_any_character(file, num_lines) ==
    IF ~file.exists \/ ~file.utf8 THEN None
    ELSE LET sorted_delimiters ==
                 sorted_by_count(count_lines(<<>>, file.lines, 0, num_lines))
         IN  IF sorted_delimiters = <<>> THEN None
             ELSE Str(<<sorted_delimiters[1][1]>>)

analyze_most_common_delimiter(file, num_lines) ==
    IF ~file.exists \/ ~file.utf8 THEN None      \* except Exception: return None
    ELSE LET delimiter_counts == count_lines(<<>>, file.lines, 0, num_lines)
         IN  IF delimiter_counts = <<>> THEN None
             ELSE LET sorted_delimiters == sorted_by_count(delimiter_counts)
                      potential_delimiters ==
                          SelectSeq(sorted_delimiters,
                                    LAMBDA item : InList(item[1], delimiter_candidates)
                                                  /\ item[2] > 0)
                  IN  IF potential_delimiters # <<>>
                      THEN Str(<<potential_delimiters[1][1]>>)
                      ELSE None

\* What csv.Sniffer().sniff(sample) can do on the file: raise (the open or the
\* decoding failed, or no delimiter could be determined), or return a
\* delimiter that occurs in the sample.
SniffFailed == [t |-> "Error", v |-> <<>>]
SniffOutcomes(file) ==
    {SniffFailed}
    \cup IF file.exists /\ file.decodable
         THEN {Str(<<c>>) : c \in {d \in {",", "\t", ";"} :
                    \E i \in 1..Len(file.lines) : InList(d, file.lines[i])}}
         ELSE {}

detect_delimiter(file, sniffed, num_lines_fallback) ==
    IF sniffed # SniffFailed THEN sniffed
    ELSE analyze_most_common_delimiter(file, num_lines_fallback)

DelimLinePool ==
    {<<"a", ",", "b">>, <<";", ";">>, <<"a", "\t", "b", ";">>, <<"e", "e", "e", "e", " ", "e">>, <<>>,
     <<",", ",", ",", ",", ",", ",", ",", ",", ",", ",", ",", ",", ",", ",", ",", ",", ",", ",", ",", ",", ",", ",", ",", ",", ",">>}

DelimFiles ==
    {MissingFile}
    \cup {[File(ls) EXCEPT !.utf8 = u, !.decodable = d] :
            ls \in SeqsUpTo(DelimLinePool, MaxDelimLines),
            u \in BOOLEAN, d \in BOOLEAN}

DelimInit ==
    /\ arg \in [file : DelimFiles, num_lines_fallback : {1, 2, num_lines_default}]
    /\ ret = [sniffed |-> None, delimiter |-> None]
    /\ pc = "delimiter"
    /\ filter_sped = None /\ all_sped = None /\ filter_df = None
    /\ all_df = None /\ loaded_df = None /\ changed_students = None
    /\ output = None /\ exc = "none"

DetectDelimiter ==
    /\ pc = "delimiter"
    /\ \E sniffed \in SniffOutcomes(arg.file) :
          ret' = [sniffed |-> sniffed,
                  delimiter |-> detect_delimiter(arg.file, sniffed,
                                                 arg.num_lines_fallback)]
    /\ pc' = "delimiter_done"
    /\ UNCHANGED <<arg, run_vars>>

DelimNext == DetectDelimiter

DelimSpec == DelimInit /\ [][DelimNext]_vars

\* the lines the fallback looks at, and how often a character occurs in them
FallbackLines(a) ==
    SubSeq(a.file.lines, 1,
           IF Len(a.file.lines) < a.num_lines_fallback
           THEN Len(a.file.lines) ELSE a.num_lines_fallback)
RECURSIVE Occurrences(_, _)
Occurrences(lines, c) ==
    IF lines = <<>> THEN 0
    ELSE Cardinality({k \in 1..Len(Head(lines)) : Head(lines)[k] = c})
         + Occurrences(Tail(lines), c)
CandidateSet == {",", "\t", ";"}
IsBestCandidate(lines, c) ==
    /\ c \in CandidateSet
    /\ Occurrences(lines, c) > 0
    /\ \A d \in CandidateSet : Occurrences(lines, c) >= Occurrences(lines, d)

\* C8 as stated: when the sniff fails, the result is a candidate of greatest,
\* non-zero count in the first num_lines_fallback lines, and it is None exactly
\* when no candidate occurs in those lines; nothing is raised.
C8_Original ==
    (pc = "delimiter_done" /\ ret.sniffed = SniffFailed) =>
        /\ exc = "none"
        /\ IF \E c \in CandidateSet : Occurrences(FallbackLines(arg), c) > 0
           THEN /\ ret.delimiter.t = "str"
                /\ IsBestCandidate(FallbackLines(arg), ret.delimiter.v[1])
           ELSE ret.delimiter = None

\* C8 (amended): when the sniff fails, the result is a candidate of greatest,
\* non-zero count in the first num_lines_fallback lines, and it is None exactly
\* when no candidate occurs in those lines or the file cannot be opened and
\* decoded as UTF-8; nothing is raised.
C8_FallbackPicksBestCandidate ==
    (pc = "delimiter_done" /\ ret.sniffed = SniffFailed) =>
        /\ exc = "none"
        /\ IF /\ arg.file.exists /\ arg.file.utf8
              /\ \E c \in CandidateSet : Occurrences(FallbackLines(arg), c) > 0
           THEN /\ ret.delimiter.t = "str"
                /\ IsBestCandidate(FallbackLines(arg), ret.delimiter.v[1])
           ELSE ret.delimiter = None

\* 50 commas and 2 semicolons in the lines looked at: the comma is returned
C8_Witness ==
    /\ pc = "delimiter_done" /\ ret.sniffed = SniffFailed
    /\ arg.num_lines_fallback = num_lines_default
    /\ Occurrences(FallbackLines(arg), ",") = 50
    /\ Occurrences(FallbackLines(arg), ";") = 2
    /\ ret.delimiter = Str(<<",">>)

(***************************************************************************)
(* Tables.  A DataFrame is its column names, in order, and its rows, each  *)
(* a sequence of cells in column order.                                    *)
(***************************************************************************)
DataFrame(columns, rows) == [t |-> "DataFrame", columns |-> columns, rows |-> rows]

has_column(df, c) == InList(c, df.columns)
column_index(df, c) == CHOOSE n \in 1..Len(df.columns) : df.columns[n] = c
cell(df, r, c) == df.rows[r][column_index(df, c)]

\* df[c] = values: overwrites the column, or appends it as the last one
set_column(df, c, values) ==
    IF has_column(df, c)
    THEN DataFrame(df.columns,
                   [r \in 1..Len(df.rows) |->
                       [df.rows[r] EXCEPT ![column_index(df, c)] = values[r]]])
    ELSE DataFrame(Append(df.columns, c),
                   [r \in 1..Len(df.rows) |-> Append(df.rows[r], values[r])])

\* df.loc[r, c] = value: a new column holds NaN in the other rows
set_cell(df, r, c, value) ==
    LET wide == IF has_column(df, c) THEN df
                ELSE set_column(df, c, [q \in 1..Len(df.rows) |-> NaN])
    IN  DataFrame(wide.columns,
                  [wide.rows EXCEPT ![r][column_index(wide, c)] = value])

drop_column(df, c) ==
    LET keep == {n \in 1..Len(df.columns) : df.columns[n] # c}
        pick(row) == [n \in 1..Cardinality(keep) |->
                        row[CHOOSE k \in keep : Cardinality({j \in keep : j < k}) = n - 1]]
    IN  DataFrame(pick(df.columns), [r \in 1..Len(df.rows) |-> pick(df.rows[r])])

\* DataFrame.empty: some axis has length 0
empty(df) == Len(df.rows) = 0 \/ Len(df.columns) = 0

(***************************************************************************)
(* pd.read_csv(filepath, encoding, delimiter, skiprows).rename(str.lower)  *)
(***************************************************************************)
\* the fields of one line: split on every occurrence of sep (no quoting)
fields_of(line, sep) ==
    LET seps == {k \in 1..Len(line) : line[k] = sep}
        pos(n) == IF n = 0 THEN 0
                  ELSE IF n > Cardinality(seps) THEN Len(line) + 1
                  ELSE CHOOSE k \in seps : Cardinality({j \in seps : j < k}) = n - 1
    IN  [n \in 1..(Cardinality(seps) + 1) |->
            SubSeq(line, pos(n - 1) + 1, pos(n) - 1)]

\* some of pandas' default na_values
na_values == {<<>>, <<"n", "/", "a">>, <<"N", "A">>, <<"N", "a", "N">>, <<"n", "u", "l", "l">>}
parse_field(field) == IF field \in na_values THEN NaN ELSE Str(field)

\* The rows after the header; blank lines are skipped, short rows are padded
\* with NaN.  A row longer than the header makes the parser raise.
read_csv(file, delimiter, header_start) ==
    LET sep == IF delimiter = None THEN "," ELSE delimiter.v[1]
        columns == LET names == fields_of(file.lines[header_start + 1], sep)
                   IN  [n \in 1..Len(names) |-> lower(names[n])]
        data == SelectSeq(SubSeq(file.lines, header_start + 2, Len(file.lines)),
                          LAMBDA line : line # <<>>)
        row(line) == LET fields == fields_of(line, sep)
                     IN  [n \in 1..Len(columns) |->
                            IF n <= Len(fields) THEN parse_field(fields[n]) ELSE NaN]
        too_long == \E n \in 1..Len(data) : Len(fields_of(data[n], sep)) > Len(columns)
    IN  IF file.malformed \/ too_long
        THEN [raised |-> TRUE, df |-> None]
        ELSE [raised |-> FALSE,
              df |-> DataFrame(columns, [n \in 1..Len(data) |-> row(data[n])])]

\* detect_encoding: open(filepath, "rb") is not in a try block
detect_encoding_raises(file) == ~file.exists

read_csv_with_detections(file, sniffed) ==
    IF detect_encoding_raises(file) THEN [raised |-> TRUE, df |-> None]
    ELSE LET header_start == find_header_start(file)
             delimiter == detect_delimiter(file, sniffed, num_lines_default)
         IN  IF header_start # None
             THEN \* except Exception: return None
                  [raised |-> FALSE, df |-> read_csv(file, delimiter, header_start.v).df]
             ELSE [raised |-> FALSE, df |-> None]

(***************************************************************************)
(* find_dob_field and standardize_dob                                      *)
(***************************************************************************)
dob_fields == <<<<"b", "i", "r", "t", "h", "d", "a", "t", "e">>, <<"d", "a", "t", "e", " ", "o", "f", " ", "b", "i", "r", "t", "h">>, <<"d", "o", "b">>>>

find_dob_field(df) ==
    IF \E n \in 1..Len(dob_fields) : has_column(df, dob_fields[n])
    THEN Str(dob_fields[CHOOSE n \in 1..Len(dob_fields) :
                            /\ has_column(df, dob_fields[n])
                            /\ \A m \in 1..(n - 1) : ~has_column(df, dob_fields[m])])
    ELSE None

Digits == {"0", "1", "2", "3", "4", "5", "6", "7", "8", "9"}
IsNumber(str) == str # <<>> /\ \A k \in 1..Len(str) : str[k] \in Digits
Months == {<<"0", "1">>, <<"0", "2">>, <<"0", "3">>, <<"0", "4">>, <<"0", "5">>, <<"0", "6">>, <<"0", "7">>, <<"0", "8">>,
           <<"0", "9">>, <<"1", "0">>, <<"1", "1">>, <<"1", "2">>}

\* pd.to_datetime(value, errors="coerce") followed by .dt.strftime("%Y-%m-%d"),
\* for the formats YYYY-MM-DD and MM/DD/YYYY; anything else is NaT, then NaN
to_datetime_strftime(value) ==
    IF ~isinstance_str(value) \/ Len(value.v) # 10 THEN NaN
    ELSE LET d == value.v
         IN  IF /\ d[5] = "-" /\ d[8] = "-"
                /\ IsNumber(SubSeq(d, 1, 4)) /\ SubSeq(d, 6, 7) \in Months
                /\ IsNumber(SubSeq(d, 9, 10))
             THEN Str(d)
             ELSE IF /\ d[3] = "/" /\ d[6] = "/"
                     /\ SubSeq(d, 1, 2) \in Months /\ IsNumber(SubSeq(d, 4, 5))
                     /\ IsNumber(SubSeq(d, 7, 10))
             THEN Str(SubSeq(d, 7, 10) \o <<"-">> \o SubSeq(d, 1, 2)
                      \o <<"-">> \o SubSeq(d, 4, 5))
             ELSE NaN

helper_dob == <<"h", "e", "l", "p", "e", "r", "_", "d", "o", "b">>
helper_firstname == <<"h", "e", "l", "p", "e", "r", "_", "f", "i", "r", "s", "t", "n", "a", "m", "e">>
helper_lastname == <<"h", "e", "l", "p", "e", "r", "_", "l", "a", "s", "t", "n", "a", "m", "e">>
isspecialed == <<"i", "s", "s", "p", "e", "c", "i", "a", "l", "e", "d">>

\* df[dob_field] raises KeyError when dob_field is None
standardize_dob_raises(df, dob_field) == dob_field = None
standardize_dob(df, dob_field) ==
    set_column(df, helper_dob,
               [r \in 1..Len(df.rows) |-> to_datetime_strftime(cell(df, r, dob_field.v))])

(***************************************************************************)
(* find_changed_students: the name columns (the body of the for loop)      *)
(***************************************************************************)
derive_names(df) ==
    LET apply(d, c, f(_)) == [r \in 1..Len(d.rows) |-> f(cell(d, r, c))]
        after_name ==
            IF has_column(df, <<"n", "a", "m", "e">>)
            THEN LET first == set_column(df, helper_firstname,
                                         apply(df, <<"n", "a", "m", "e">>, first_token))
                     last == set_column(first, helper_lastname,
                                        apply(first, <<"n", "a", "m", "e">>, suffix_lastname))
                 IN  drop_column(last, <<"n", "a", "m", "e">>)
            ELSE df
        after_lastname ==
            IF has_column(after_name, <<"l", "a", "s", "t", "n", "a", "m", "e">>)
            THEN set_column(after_name, helper_lastname,
                            apply(after_name, <<"l", "a", "s", "t", "n", "a", "m", "e">>, suffix_lastname))
            ELSE after_name
    IN  IF has_column(after_lastname, <<"f", "i", "r", "s", "t", "n", "a", "m", "e">>)
        THEN set_column(after_lastname, helper_firstname,
                        apply(after_lastname, <<"f", "i", "r", "s", "t", "n", "a", "m", "e">>, first_token))
        ELSE after_lastname

(***************************************************************************)
(* find_changed_students: the flagging loop                                *)
(***************************************************************************)
\* Series == value, element by element: a missing value equals nothing
pandas_eq_missing_equal(x, y) == x = y
pandas_eq(x, y) == IF IsNull(x) \/ IsNull(y) THEN FALSE ELSE x = y

\* the mask without its helper_dob term
row_selected_names_only(df, j, row_df, i) ==
    /\ pandas_eq(cell(df, j, helper_lastname), cell(row_df, i, helper_lastname))
    /\ pandas_eq(cell(df, j, helper_firstname), cell(row_df, i, helper_firstname))

\* the boolean mask at row j of all_df, for row i of filter_df
row_selected(df, j, row_df, i) ==
    /\ pandas_eq(cell(df, j, helper_lastname), cell(row_df, i, helper_lastname))
    /\ pandas_eq(cell(df, j, helper_firstname), cell(row_df, i, helper_firstname))
    /\ pandas_eq(cell(df, j, helper_dob), cell(row_df, i, helper_dob))

\* bool(value) as DataFrame.any() sees it: missing values are skipped
truthy(x) ==
    IF x.t = "str" THEN x.v # <<>>
    ELSE IF x.t = "bool" THEN x.v
    ELSE IF x.t = "int" THEN x.v # 0
    ELSE FALSE

\* all_df[mask].any(axis=None)
any_selected(df, row_df, i) ==
    \E j \in 1..Len(df.rows) :
        /\ row_selected(df, j, row_df, i)
        /\ \E n \in 1..Len(df.columns) : truthy(df.rows[j][n])

helper_columns == <<helper_lastname, helper_firstname, helper_dob>>
has_helpers(df) == \A n \in 1..Len(helper_columns) : has_column(df, helper_columns[n])

\* for index, row in filter_df.iterrows(): rows i..end
RECURSIVE flag_rows(_, _, _)
flag_rows(df, reference, i) ==
    IF i > Len(df.rows) THEN df
    ELSE flag_rows(set_cell(df, i, isspecialed, Bool(any_selected(reference, df, i))),
                   reference, i + 1)

\* a KeyError: a helper column is read in the loop, or dropped after it,
\* that the table does not have
flagging_raises(df, reference) ==
    \/ Len(df.rows) > 0 /\ (~has_helpers(reference) \/ ~has_helpers(df))
    \/ ~has_helpers(df)

flagged(df, reference) ==
    drop_column(drop_column(drop_column(flag_rows(df, reference, 1),
                                        helper_lastname),
                            helper_firstname),
                helper_dob)

(***************************************************************************)
(* The files of a run.                                                     *)
(***************************************************************************)
HdrName == <<"N", "a", "m", "e", ",", "D", "O", "B">>
HdrSplit == <<"F", "i", "r", "s", "t", "N", "a", "m", "e", ",", "L", "a", "s", "t", "N", "a", "m", "e", ",", "B", "i", "r", "t", "h", "D", "a", "t", "e">>
HdrSpaced == <<"L", "a", "s", "t", " ", "N", "a", "m", "e", ",", "F", "i", "r", "s", "t", " ", "N", "a", "m", "e", ",", "D", "a", "t", "e", " ", "o", "f", " ", "B", "i", "r", "t", "h">>
HdrStudentDob == <<"N", "a", "m", "e", ",", "S", "t", "u", "d", "e", "n", "t", " ", "D", "O", "B">>
Title == <<"D", "i", "s", "t", "r", "i", "c", "t", " ", "R", "e", "p", "o", "r", "t">>

RowsFor(header) ==
    IF header = HdrName
    THEN {<<"A", "n", "n", " ", "L", "e", "e", ",", "2", "0", "0", "5", "-", "0", "1", "-", "0", "1">>, <<"B", "o", "b", " ", "R", "a", "y", " ", "J", "r", ",", "0", "1", "/", "0", "2", "/", "2", "0", "0", "6">>, <<"A", "n", "n", " ", "L", "e", "e", ",", "u", "n", "k", "n", "o", "w", "n">>,
          <<",", "2", "0", "0", "5", "-", "0", "1", "-", "0", "1">>}
    ELSE IF header = HdrSplit
    THEN {<<"A", "n", "n", ",", "L", "e", "e", ",", "2", "0", "0", "5", "-", "0", "1", "-", "0", "1">>, <<"A", "n", "n", ",", ",", "2", "0", "0", "5", "-", "0", "1", "-", "0", "1">>}
    ELSE IF header = HdrSpaced
    THEN {<<"L", "e", "e", ",", "A", "n", "n", ",", "2", "0", "0", "5", "-", "0", "1", "-", "0", "1">>}
    ELSE {}

RunFiles(max_rows) ==
    UNION {{File(<<h>> \o rows) : rows \in SeqsUpTo(RowsFor(h), max_rows)} :
              h \in {HdrName, HdrSplit, HdrSpaced}}
    \cup {MissingFile,
          File(<<Title>>),
          File(<<Title, <<>>, HdrName, <<"A", "n", "n", " ", "L", "e", "e", ",", "2", "0", "0", "5", "-", "0", "1", "-", "0", "1">>>>),
          File(<<HdrStudentDob, <<"A", "n", "n", " ", "L", "e", "e", ",", "2", "0", "0", "5", "-", "0", "1", "-", "0", "1">>>>),
          [File(<<HdrName, <<"A", "n", "n", " ", "L", "e", "e", ",", "2", "0", "0", "5", "-", "0", "1", "-", "0", "1">>>>) EXCEPT !.decodable = FALSE,
                                                            !.utf8 = FALSE],
          [File(<<HdrName, <<"A", "n", "n", " ", "L", "e", "e", ",", "2", "0", "0", "5", "-", "0", "1", "-", "0", "1">>>>) EXCEPT !.malformed = TRUE]}

(***************************************************************************)
(* The run: __main__ calling find_changed_students.                        *)
(***************************************************************************)
Init ==
    /\ filter_sped \in RunFiles(MaxRowsA)
    /\ all_sped \in RunFiles(MaxRowsB)
    /\ pc = "filter"
    /\ filter_df = None /\ all_df = None /\ loaded_df = None
    /\ changed_students = None /\ output = None /\ exc = "none"
    /\ arg = None /\ ret = None

\* filter_df = read_csv_with_detections(filter_sped)
LoadFilter ==
    /\ pc = "filter"
    /\ \E sniffed \in SniffOutcomes(filter_sped) :
          LET r == read_csv_with_detections(filter_sped, sniffed)
          IN  IF r.raised
              THEN /\ pc' = "raised" /\ exc' = "read_csv_with_detections"
                   /\ UNCHANGED <<filter_df, loaded_df>>
              ELSE /\ pc' = "all" /\ filter_df' = r.df /\ loaded_df' = r.df
                   /\ UNCHANGED exc
    /\ UNCHANGED <<filter_sped, all_sped, all_df, changed_students, output, arg, ret>>

\* all_df = read_csv_with_detections(all_sped)
LoadAll ==
    /\ pc = "all"
    /\ \E sniffed \in SniffOutcomes(all_sped) :
          LET r == read_csv_with_detections(all_sped, sniffed)
          IN  IF r.raised
              THEN /\ pc' = "raised" /\ exc' = "read_csv_with_detections"
                   /\ UNCHANGED all_df
              ELSE /\ pc' = "loaded" /\ all_df' = r.df /\ UNCHANGED exc
    /\ UNCHANGED <<filter_sped, all_sped, filter_df, loaded_df, changed_students,
                   output, arg, ret>>

\* if filter_df is None or all_df is None: return None
CheckLoaded ==
    /\ pc = "loaded"
    /\ IF filter_df = None \/ all_df = None
       THEN pc' = "returned" /\ changed_students' = None
       ELSE pc' = "standardize" /\ UNCHANGED changed_students
    /\ UNCHANGED <<filter_sped, all_sped, filter_df, all_df, loaded_df, output,
                   exc, arg, ret>>

\* find_dob_field and standardize_dob on both tables
StandardizeDob ==
    /\ pc = "standardize"
    /\ LET dob_field_filtered == find_dob_field(filter_df)
           dob_field_all == find_dob_field(all_df)
       IN  IF \/ standardize_dob_raises(filter_df, dob_field_filtered)
              \/ standardize_dob_raises(all_df, dob_field_all)
           THEN /\ pc' = "raised" /\ exc' = "find_changed_students"
                /\ UNCHANGED <<filter_df, all_df>>
           ELSE /\ pc' = "names"
                /\ filter_df' = standardize_dob(filter_df, dob_field_filtered)
                /\ all_df' = standardize_dob(all_df, dob_field_all)
                /\ UNCHANGED exc
    /\ UNCHANGED <<filter_sped, all_sped, loaded_df, changed_students, output,
                   arg, ret>>

\* for df in [filter_df, all_df]: the helper name columns
DeriveNames ==
    /\ pc = "names"
    /\ filter_df' = derive_names(filter_df)
    /\ all_df' = derive_names(all_df)
    /\ pc' = "flag"
    /\ UNCHANGED <<filter_sped, all_sped, loaded_df, changed_students, output,
                   exc, arg, ret>>

\* the iterrows loop, the drop of the helper columns and the return
FlagRows ==
    /\ pc = "flag"
    /\ IF flagging_raises(filter_df, all_df)
       THEN /\ pc' = "raised" /\ exc' = "find_changed_students"
            /\ UNCHANGED <<filter_df, changed_students>>
       ELSE /\ pc' = "returned"
            /\ filter_df' = flagged(filter_df, all_df)
            /\ changed_students' = flagged(filter_df, all_df)
            /\ UNCHANGED exc
    /\ UNCHANGED <<filter_sped, all_sped, all_df, loaded_df, output, arg, ret>>

\* if changed_students is not None and not changed_students.empty: to_csv
MainWrite ==
    /\ pc = "returned"
    /\ IF changed_students # None /\ ~empty(changed_students)
       THEN output' = changed_students
       ELSE UNCHANGED output
    /\ pc' = "done"
    /\ UNCHANGED <<filter_sped, all_sped, filter_df, all_df, loaded_df,
                   changed_students, exc, arg, ret>>

Next ==
    \/ LoadFilter \/ LoadAll \/ CheckLoaded \/ StandardizeDob
    \/ DeriveNames \/ FlagRows \/ MainWrite

Spec == Init /\ [][Next]_vars

(***************************************************************************)
(* Properties of the run.                                                  *)
(***************************************************************************)
Returned == pc \in {"returned", "done"}
ReturnedTable == Returned /\ changed_students # None
BothLoaded == filter_df # None /\ all_df # None
ColumnSet(df) == {df.columns[n] : n \in 1..Len(df.columns)}

\* the MatchKey of row i of table A, derived from the table as it was loaded
DobColumn(df) ==
    IF <<"b", "i", "r", "t", "h", "d", "a", "t", "e">> \in ColumnSet(df) THEN <<"b", "i", "r", "t", "h", "d", "a", "t", "e">>
    ELSE IF <<"d", "a", "t", "e", " ", "o", "f", " ", "b", "i", "r", "t", "h">> \in ColumnSet(df) THEN <<"d", "a", "t", "e", " ", "o", "f", " ", "b", "i", "r", "t", "h">>
    ELSE <<"d", "o", "b">>
DerivedLast(df, i) ==
    IF <<"l", "a", "s", "t", "n", "a", "m", "e">> \in ColumnSet(df) THEN suffix_lastname(cell(df, i, <<"l", "a", "s", "t", "n", "a", "m", "e">>))
    ELSE suffix_lastname(cell(df, i, <<"n", "a", "m", "e">>))
DerivedFirst(df, i) ==
    IF <<"f", "i", "r", "s", "t", "n", "a", "m", "e">> \in ColumnSet(df) THEN first_token(cell(df, i, <<"f", "i", "r", "s", "t", "n", "a", "m", "e">>))
    ELSE first_token(cell(df, i, <<"n", "a", "m", "e">>))
DerivedDob(df, i) == to_datetime_strftime(cell(df, i, DobColumn(df)))
KeyA(i) == <<DerivedLast(loaded_df, i), DerivedFirst(loaded_df, i),
             DerivedDob(loaded_df, i)>>
\* the MatchKey of row j of table B: its derived fields
KeyB(j) == <<cell(all_df, j, helper_lastname), cell(all_df, j, helper_firstname),
             cell(all_df, j, helper_dob)>>
HasNull(key) == \E n \in 1..3 : IsNull(key[n])
SameKey(ka, kb) == ~HasNull(ka) /\ ~HasNull(kb) /\ ka = kb
Matches(i) == {j \in 1..Len(all_df.rows) : SameKey(KeyA(i), KeyB(j))}
Flag(i) == cell(changed_students, i, isspecialed)

\* C1: the table find_changed_students returns has one row per row of A, in
\* A's order and with A's values, and the flag of a row is true if and only
\* if some row of B has the same derived last name, first name and DOB.
C1_FlagIffMatch ==
    ReturnedTable =>
        /\ Len(changed_students.rows) = Len(loaded_df.rows)
        /\ \A i \in 1..Len(loaded_df.rows) :
              /\ \A c \in ColumnSet(loaded_df) \ {<<"n", "a", "m", "e">>} :
                    cell(changed_students, i, c) = cell(loaded_df, i, c)
              /\ Flag(i) = Bool(Matches(i) # {})

\* A has two rows and exactly one of them is flagged
C1_Witness ==
    /\ ReturnedTable
    /\ Len(changed_students.rows) = 2
    /\ Flag(1) = Bool(TRUE)
    /\ Flag(2) = Bool(FALSE)
    /\ Matches(1) # {} /\ Matches(2) = {}

\* C2: a row of A with a null derived first name, last name or DOB is never
\* flagged true, whatever B holds.
C2_NullKeyNeverFlagged ==
    ReturnedTable =>
        \A i \in 1..Len(loaded_df.rows) : HasNull(KeyA(i)) => Flag(i) = Bool(FALSE)

\* a row of A with a null DOB stays unflagged although a row of B has a null
\* DOB too and the same names
C2_Witness ==
    /\ ReturnedTable
    /\ \E i \in 1..Len(loaded_df.rows), j \in 1..Len(all_df.rows) :
          /\ IsNull(KeyA(i)[3]) /\ IsNull(KeyB(j)[3])
          /\ ~IsNull(KeyA(i)[1]) /\ KeyA(i)[1] = KeyB(j)[1]
          /\ ~IsNull(KeyA(i)[2]) /\ KeyA(i)[2] = KeyB(j)[2]
          /\ Flag(i) = Bool(FALSE)

\* C3: the columns of the returned table are the columns of A as loaded plus
\* exactly one added boolean column; the helper columns are gone and no
\* original column of A has been removed.
C3_ColumnsMirrorInput ==
    ReturnedTable =>
        /\ ColumnSet(changed_students) = ColumnSet(loaded_df) \cup {isspecialed}
        /\ isspecialed \notin ColumnSet(loaded_df)
        /\ Len(changed_students.columns) = Len(loaded_df.columns) + 1

\* C4: read_csv_with_detections never lets an error reach its caller, so
\* find_changed_students returns None without raising when a file cannot be
\* loaded, and the steps after the load never see a missing table.
C4_LoaderAbsorbsFailures ==
    /\ exc # "read_csv_with_detections"
    /\ (~filter_sped.exists \/ ~all_sped.exists) =>
          /\ pc # "raised"
          /\ Returned => changed_students = None
    /\ pc \in {"standardize", "names", "flag"} => BothLoaded

\* C5: no output file is written when both tables load and no row of A matches
\* a row of B, nor when a table fails to load.
C5_NoOutputWithoutMatch ==
    output # None =>
        /\ BothLoaded
        /\ \E i \in 1..Len(loaded_df.rows) : Matches(i) # {}

\* C6: the result holds exactly one row per pair (a, b) of rows with the same
\* MatchKey, so rows of A without a match are absent and a key shared by k rows
\* of B gives k rows, and its columns are first_name, last_name, dob.
C6_InnerJoin ==
    ReturnedTable =>
        /\ Len(changed_students.rows) =
              Cardinality({<<i, j>> \in (1..Len(loaded_df.rows)) \X (1..Len(all_df.rows)) :
                              SameKey(KeyA(i), KeyB(j))})
        /\ changed_students.columns = <<<<"f", "i", "r", "s", "t", "_", "n", "a", "m", "e">>, <<"l", "a", "s", "t", "_", "n", "a", "m", "e">>, <<"d", "o", "b">>>>

\* C10: when both files load, find_changed_students reaches its return: a DOB
\* column is found and both helper name fields are derived.
C10_LoadedRunCompletes ==
    BothLoaded => pc # "raised"

====
